---- MODULE Spec2Model ----
(***************************************************************************)
(* A model of the Data-Marketplace canister                                *)
(* (src/src/dfinity_js_backend/src/index.ts).                              *)
(*                                                                         *)
(* Texts (titles, ids, ...) are sequences of one-character strings, so     *)
(* that trim(), toLowerCase(), includes() and the uuid regular expression  *)
(* are computed character by character as the code computes them.          *)
(* Every canister method is one action: the host runs each call to         *)
(* completion before the next.  `last` records the latest call: the        *)
(* method, ic.caller(), the arguments and the value returned.              *)
(***************************************************************************)
EXTENDS Integers, Sequences, FiniteSets

VARIABLES DataItemsStorage, purchasersStorage, generated, nops, last

vars == <<DataItemsStorage, purchasersStorage, generated, nops, last>>

\* The number of calls in one run of the model.
MaxOps == 3

(***************************************************************************)
(* Texts                                                                   *)
(***************************************************************************)
WhiteSpace == {" ", "\t", "\n"}

UpperChars == <<"A", "B", "C", "D", "E", "F", "P", "S", "V">>

LowerChars == <<"a", "b", "c", "d", "e", "f", "p", "s", "v">>

RECURSIVE Rep(_, _)
Rep(c, n) == IF n = 0 THEN <<>> ELSE <<c>> \o Rep(c, n - 1)

RECURSIVE trimStart(_)
trimStart(str) ==
    IF str # <<>> /\ Head(str) \in WhiteSpace THEN trimStart(Tail(str)) ELSE str

RECURSIVE trimEnd(_)
trimEnd(str) ==
    IF str # <<>> /\ str[Len(str)] \in WhiteSpace
    THEN trimEnd(SubSeq(str, 1, Len(str) - 1))
    ELSE str

\* String.prototype.trim
trim(str) == trimEnd(trimStart(str))

\* String.prototype.toLowerCase, on the letters the model uses
toLowerCase(str) ==
    [i \in 1..Len(str) |->
        IF \E j \in 1..Len(UpperChars) : UpperChars[j] = str[i]
        THEN LowerChars[CHOOSE j \in 1..Len(UpperChars) : UpperChars[j] = str[i]]
        ELSE str[i]]

\* String.prototype.includes
includes(str, sub) ==
    \E i \in 0..(Len(str) - Len(sub)) : SubSeq(str, i + 1, i + Len(sub)) = sub

\* Array.prototype.slice(from, to) with 0 <= from, 0 <= to
slice(seq, from, to) ==
    LET lo == IF from > Len(seq) THEN Len(seq) ELSE from
        hi == IF to > Len(seq) THEN Len(seq) ELSE to
    IN  IF lo >= hi THEN <<>> ELSE SubSeq(seq, lo + 1, hi)

\* { ...a, ...b }: the keys of both, b's value where both have the key
Spread(a, b) ==
    [k \in (DOMAIN a) \cup (DOMAIN b) |-> IF k \in DOMAIN b THEN b[k] ELSE a[k]]

(***************************************************************************)
(* Helper functions of the canister                                        *)
(***************************************************************************)
isInvalidString(str) == Len(trim(str)) = 0

HexChars ==
    {"0", "1", "2", "3", "4", "5", "6", "7", "8", "9",
     "a", "b", "c", "d", "e", "f", "A", "B", "C", "D", "E", "F"}

\* The groups of /^[0-9a-f]{8}\b-[0-9a-f]{4}\b-[0-9a-f]{4}\b-[0-9a-f]{4}\b-[0-9a-f]{12}$/gi
UuidGroups == <<8, 4, 4, 4, 12>>

RECURSIVE matchGroups(_, _)
matchGroups(str, groups) ==
    LET n == Head(groups) IN
    /\ Len(str) >= n
    /\ \A i \in 1..n : str[i] \in HexChars
    /\ IF Len(groups) = 1
       THEN Len(str) = n
       ELSE /\ Len(str) > n
            /\ str[n + 1] = "-"
            /\ matchGroups(SubSeq(str, n + 2, Len(str)), Tail(groups))

isValidUuid_LengthOnly(id) == Len(id) = 36

isValidUuid(id) == matchGroups(id, UuidGroups)

DataItemPayloadErrors(payload) ==
    <<[field |-> "description", value |-> payload.description, bad |-> isInvalidString(payload.description)],
      [field |-> "quality", value |-> payload.quality, bad |-> isInvalidString(payload.quality)],
      [field |-> "title", value |-> payload.title, bad |-> isInvalidString(payload.title)],
      [field |-> "attachmentURL", value |-> payload.attachmentURL, bad |-> isInvalidString(payload.attachmentURL)],
      [field |-> "price", value |-> <<payload.price>>, bad |-> payload.price = 0]>>

PurchaserPayloadErrors(payload) ==
    <<[field |-> "name", value |-> payload.name, bad |-> isInvalidString(payload.name)],
      [field |-> "message", value |-> payload.message, bad |-> isInvalidString(payload.message)],
      [field |-> "price", value |-> <<payload.price>>, bad |-> payload.price = 0]>>

\* One pushed error string: `<field>='<value>' cannot be empty.` (or `must be greater than zero.`)
ErrorString(check) == [field |-> check.field, value |-> check.value]

RECURSIVE pushErrors(_)
pushErrors(checks) ==
    IF checks = <<>> THEN <<>>
    ELSE (IF Head(checks).bad THEN <<ErrorString(Head(checks))>> ELSE <<>>)
         \o pushErrors(Tail(checks))

RECURSIVE firstError(_)
firstError(checks) ==
    IF checks = <<>> THEN <<>>
    ELSE IF Head(checks).bad THEN <<ErrorString(Head(checks))>>
    ELSE firstError(Tail(checks))

validateDataItemPayload_FirstOnly(payload) == firstError(DataItemPayloadErrors(payload))

validateDataItemPayload(payload) == pushErrors(DataItemPayloadErrors(payload))

validatePurchaserPayload(payload) == pushErrors(PurchaserPayloadErrors(payload))

(***************************************************************************)
(* Identifiers.  uuidv4() is the uuid package's: its n-th call is modelled *)
(* as returning the n-th of a sequence of distinct version-4 identifiers.  *)
(***************************************************************************)
HexLower ==
    <<"1", "2", "3", "4", "5", "6", "7", "8", "9", "a", "b", "c", "d", "e", "f">>

GenId(n) ==
    LET c == HexLower[n] IN
    Rep(c, 8) \o <<"-">> \o Rep(c, 4) \o <<"-", "4">> \o Rep(c, 3)
        \o <<"-", "8">> \o Rep(c, 3) \o <<"-">> \o Rep(c, 12)

uuidv4 == GenId(generated + 1)

\* A well-formed identifier that uuidv4 never returns (upper case, no version digit)
OtherValidId ==
    Rep("F", 8) \o <<"-">> \o Rep("F", 4) \o <<"-">> \o Rep("F", 4)
        \o <<"-">> \o Rep("F", 4) \o <<"-">> \o Rep("F", 12)

\* "not-a-uuid"
BadIdShort == <<"n", "o", "t", "-", "a", "-", "u", "u", "i", "d">>

\* 36 characters in the 8-4-4-4-12 layout, the first one not hexadecimal
BadIdNonHex == <<"g">> \o Tail(GenId(1))

GeneratedIds == {GenId(i) : i \in 1..generated}

IdInputs == GeneratedIds \cup {OtherValidId, BadIdShort, BadIdNonHex}

ItemIdInputs == GeneratedIds \cup {OtherValidId, BadIdShort}

Callers == {"alice", "bob"}

(***************************************************************************)
(* Payloads                                                                *)
(***************************************************************************)
\* `{}`: an object with no keys
EmptyPayload == <<>>

ItemV1 ==
    [title |-> <<"D", "a">>, description |-> <<"C", "S", "V">>, price |-> 1,
     attachmentURL |-> <<"u">>, dataFormat |-> <<"c", "s", "v">>,
     status |-> <<"a">>, quality |-> <<"b">>, rating |-> 5]

ItemV2 ==
    [title |-> <<" ", "b">>, description |-> <<"d", "a">>, price |-> 2,
     attachmentURL |-> <<"v">>, dataFormat |-> <<"P", "D", "F">>,
     status |-> <<>>, quality |-> <<"a", " ">>, rating |-> 0]

\* a whitespace-only title and a zero price, the rest valid
ItemBad == [ItemV1 EXCEPT !.title = <<" ", "\t">>, !.price = 0]

DataItemPayloads == {ItemV1, ItemV2, ItemBad, EmptyPayload}

PurchaserV1 == [name |-> <<"a">>, price |-> 1, message |-> <<"b">>]

PurchaserV2 == [name |-> <<" ", "c">>, price |-> 2, message |-> <<"d", " ">>]

\* a whitespace-only message and a zero price, the name valid
PurchaserBad == [PurchaserV1 EXCEPT !.message = <<"\n", " ">>, !.price = 0]

PurchaserPayloads == {PurchaserV1, PurchaserV2, PurchaserBad, EmptyPayload}

\* Every payload over a few texts and prices, for the validators
Texts == {<<>>, <<" ">>, <<"a">>}

Prices == {0, 1}

AllDataItemPayloads ==
    [title : Texts, description : Texts, price : Prices, attachmentURL : Texts,
     dataFormat : {<<>>}, status : {<<>>}, quality : Texts, rating : {0}]
        \cup {EmptyPayload}

AllPurchaserPayloads ==
    [name : Texts, price : Prices, message : Texts] \cup {EmptyPayload}

Queries == {<<"d", "A">>, <<"C", "s">>}

(***************************************************************************)
(* StableBTreeMap: a map from key to value, enumerated in key order        *)
(***************************************************************************)
\* The characters of the keys in byte order
ByteOrder ==
    <<"-", "0", "1", "2", "3", "4", "5", "6", "7", "8", "9",
      "A", "B", "C", "D", "E", "F", "a", "b", "c", "d", "e", "f">>

Byte(c) == CHOOSE i \in 1..Len(ByteOrder) : ByteOrder[i] = c

RECURSIVE KeyLess(_, _)
KeyLess(a, b) ==
    IF a = <<>> THEN b # <<>>
    ELSE IF b = <<>> THEN FALSE
    ELSE IF Head(a) = Head(b) THEN KeyLess(Tail(a), Tail(b))
    ELSE Byte(Head(a)) < Byte(Head(b))

get(map, key) == IF key \in DOMAIN map THEN [Some |-> map[key]] ELSE [None |-> TRUE]

insert(map, key, value) ==
    [k \in (DOMAIN map) \cup {key} |-> IF k = key THEN value ELSE map[k]]

remove(map, key) == [k \in (DOMAIN map) \ {key} |-> map[k]]

RECURSIVE valuesFrom(_, _)
valuesFrom(map, keys) ==
    IF keys = {} THEN <<>>
    ELSE LET k == CHOOSE x \in keys : \A y \in keys \ {x} : KeyLess(x, y)
         IN  <<map[k]>> \o valuesFrom(map, keys \ {k})

values(map) == valuesFrom(map, DOMAIN map)

(***************************************************************************)
(* Results                                                                 *)
(***************************************************************************)
\* Ok(value)
Ok(value) == [tag |-> "Ok", val |-> value]

\* Err({ <variant>: <text> }): an error of the Message variant type
ErrMessage(variant, text, detail) ==
    [tag |-> "Err", variant |-> variant, text |-> text, detail |-> detail]

\* Err(<text>): an error that is a bare text (the Result(_, text) methods)
ErrText(text, detail) ==
    [tag |-> "Err", variant |-> "text", text |-> text, detail |-> detail]

\* A value returned as it is (the Vec(_) queries)
Value(value) == [tag |-> "Value", val |-> value]

NoText == <<>>

Call(op, caller, id, itemId, payload, query, range, res) ==
    [op |-> op, caller |-> caller, id |-> id, itemId |-> itemId,
     payload |-> payload, query |-> query, range |-> range, res |-> res]

Returns(call) ==
    /\ nops < MaxOps
    /\ nops' = nops + 1
    /\ last' = call

(***************************************************************************)
(* The canister's methods.  Each <method>Run is the method's body: the     *)
(* value it returns and the stores it leaves.                              *)
(***************************************************************************)
NoCaller == ""

InvalidUuid(name, id) ==
    ErrMessage("InvalidPayload", "is not in the valid uuid format.", <<name, id>>)

InvalidPayloadErrors(errors) ==
    ErrMessage("InvalidPayload", "Invalid payload. Errors=", errors)

Unwritten(res) ==
    [res |-> res, items |-> DataItemsStorage, purchasers |-> purchasersStorage,
     generated |-> generated]

ItemsWritten(res, items) == [Unwritten(res) EXCEPT !.items = items]

PurchasersWritten(res, purchasers) == [Unwritten(res) EXCEPT !.purchasers = purchasers]

Runs(op, caller, id, itemId, payload, query, range, run) ==
    /\ Returns(Call(op, caller, id, itemId, payload, query, range, run.res))
    /\ DataItemsStorage' = run.items
    /\ purchasersStorage' = run.purchasers
    /\ generated' = run.generated

getDataItemsRun == Unwritten(Value(values(DataItemsStorage)))

getPurchasersRun == Unwritten(Value(values(purchasersStorage)))

getDataItemRun(id) ==
    IF ~isValidUuid(id)
    THEN Unwritten(ErrText("is not in the valid uuid format.", <<"Id", id>>))
    ELSE LET dataOpt == get(DataItemsStorage, id) IN
         IF "None" \in DOMAIN dataOpt
         THEN Unwritten(ErrText("Data Item not found", <<>>))
         ELSE Unwritten(Ok(dataOpt.Some))

getPurchaserRun(id) ==
    IF ~isValidUuid(id)
    THEN Unwritten(ErrText("is not in the valid uuid format.", <<"Id", id>>))
    ELSE LET purchaserOpt == get(purchasersStorage, id) IN
         IF "None" \in DOMAIN purchaserOpt
         THEN Unwritten(ErrText("Purchaser not found", <<>>))
         ELSE Unwritten(Ok(purchaserOpt.Some))

addDataItemRun_NoInsert(caller, payload) ==
    IF DOMAIN payload = {}
    THEN Unwritten(ErrMessage("NotFound", "invalid payload", <<>>))
    ELSE LET validatePayloadErrors == validateDataItemPayload(payload) IN
         IF Len(validatePayloadErrors) # 0
         THEN Unwritten(InvalidPayloadErrors(validatePayloadErrors))
         ELSE LET data == Spread([id |-> uuidv4, seller |-> caller], payload) IN
              [Unwritten(Ok(data)) EXCEPT !.generated = generated + 1]

addDataItemRun_ReusedId(caller, payload) ==
    IF DOMAIN payload = {}
    THEN Unwritten(ErrMessage("NotFound", "invalid payload", <<>>))
    ELSE LET validatePayloadErrors == validateDataItemPayload(payload) IN
         IF Len(validatePayloadErrors) # 0
         THEN Unwritten(InvalidPayloadErrors(validatePayloadErrors))
         ELSE LET data == Spread([id |-> GenId(1), seller |-> caller], payload) IN
              [ItemsWritten(Ok(data), insert(DataItemsStorage, data.id, data))
                  EXCEPT !.generated = generated + 1]

addDataItemRun(caller, payload) ==
    IF DOMAIN payload = {}
    THEN Unwritten(ErrMessage("NotFound", "invalid payload", <<>>))
    ELSE LET validatePayloadErrors == validateDataItemPayload(payload) IN
         IF Len(validatePayloadErrors) # 0
         THEN Unwritten(InvalidPayloadErrors(validatePayloadErrors))
         ELSE LET data == Spread([id |-> uuidv4, seller |-> caller], payload) IN
              [ItemsWritten(Ok(data), insert(DataItemsStorage, data.id, data))
                  EXCEPT !.generated = generated + 1]

addPurchaserRun(caller, payload) ==
    IF DOMAIN payload = {}
    THEN Unwritten(ErrMessage("NotFound", "invalid payoad", <<>>))
    ELSE LET validatePayloadErrors == validatePurchaserPayload(payload) IN
         IF Len(validatePayloadErrors) # 0
         THEN Unwritten(InvalidPayloadErrors(validatePayloadErrors))
         ELSE LET purchaser ==
                      Spread(Spread([id |-> uuidv4, owner |-> caller], payload),
                             [purchasedItem |-> <<>>])
              IN  [PurchasersWritten(Ok(purchaser),
                                     insert(purchasersStorage, purchaser.id, purchaser))
                      EXCEPT !.generated = generated + 1]

updateDataItemRun_NoSellerCheck(caller, id, payload) ==
    IF DOMAIN payload = {}
    THEN Unwritten(ErrMessage("NotFound", "invalid payoad", <<>>))
    ELSE IF ~isValidUuid(id)
    THEN Unwritten(InvalidUuid("Id", id))
    ELSE LET validatePayloadErrors == validateDataItemPayload(payload) IN
         IF Len(validatePayloadErrors) # 0
         THEN Unwritten(InvalidPayloadErrors(validatePayloadErrors))
         ELSE LET dataOpt == get(DataItemsStorage, id) IN
              IF "None" \in DOMAIN dataOpt
              THEN Unwritten(ErrMessage("NotFound", "Data not found", <<>>))
              ELSE LET updatedData == Spread(dataOpt.Some, payload) IN
                   ItemsWritten(Ok(updatedData), insert(DataItemsStorage, id, updatedData))

updateDataItemRun_NoValidation(caller, id, payload) ==
    IF DOMAIN payload = {}
    THEN Unwritten(ErrMessage("NotFound", "invalid payoad", <<>>))
    ELSE IF ~isValidUuid(id)
    THEN Unwritten(InvalidUuid("Id", id))
    ELSE LET dataOpt == get(DataItemsStorage, id) IN
         IF "None" \in DOMAIN dataOpt
         THEN Unwritten(ErrMessage("NotFound", "Data not found", <<>>))
         ELSE LET data == dataOpt.Some IN
              IF data.seller # caller
              THEN Unwritten(ErrMessage("AuthenticationFailed",
                                        "Caller is not the seller of the item.", <<>>))
              ELSE LET updatedData == Spread(data, payload) IN
                   ItemsWritten(Ok(updatedData), insert(DataItemsStorage, id, updatedData))

updateDataItemRun_WriteBeforeCheck(caller, id, payload) ==
    IF DOMAIN payload = {}
    THEN Unwritten(ErrMessage("NotFound", "invalid payoad", <<>>))
    ELSE IF ~isValidUuid(id)
    THEN Unwritten(InvalidUuid("Id", id))
    ELSE LET validatePayloadErrors == validateDataItemPayload(payload) IN
         IF Len(validatePayloadErrors) # 0
         THEN Unwritten(InvalidPayloadErrors(validatePayloadErrors))
         ELSE LET dataOpt == get(DataItemsStorage, id) IN
              IF "None" \in DOMAIN dataOpt
              THEN Unwritten(ErrMessage("NotFound", "Data not found", <<>>))
              ELSE LET data == dataOpt.Some
                       updatedData == Spread(data, payload)
                   IN  IF data.seller # caller
                       THEN ItemsWritten(ErrMessage("AuthenticationFailed",
                                             "Caller is not the seller of the item.", <<>>),
                                         insert(DataItemsStorage, id, updatedData))
                       ELSE ItemsWritten(Ok(updatedData),
                                         insert(DataItemsStorage, id, updatedData))

updateDataItemRun_SellerFromCaller(caller, id, payload) ==
    IF DOMAIN payload = {}
    THEN Unwritten(ErrMessage("NotFound", "invalid payoad", <<>>))
    ELSE IF ~isValidUuid(id)
    THEN Unwritten(InvalidUuid("Id", id))
    ELSE LET validatePayloadErrors == validateDataItemPayload(payload) IN
         IF Len(validatePayloadErrors) # 0
         THEN Unwritten(InvalidPayloadErrors(validatePayloadErrors))
         ELSE LET dataOpt == get(DataItemsStorage, id) IN
              IF "None" \in DOMAIN dataOpt
              THEN Unwritten(ErrMessage("NotFound", "Data not found", <<>>))
              ELSE LET data == dataOpt.Some IN
                   IF data.seller # caller
                   THEN Unwritten(ErrMessage("AuthenticationFailed",
                                             "Caller is not the seller of the item.", <<>>))
                   ELSE LET updatedData ==
                                Spread([id |-> uuidv4, seller |-> caller], payload)
                        IN  ItemsWritten(Ok(updatedData),
                                         insert(DataItemsStorage, id, updatedData))

updateDataItemRun(caller, id, payload) ==
    IF DOMAIN payload = {}
    THEN Unwritten(ErrMessage("NotFound", "invalid payoad", <<>>))
    ELSE IF ~isValidUuid(id)
    THEN Unwritten(InvalidUuid("Id", id))
    ELSE LET validatePayloadErrors == validateDataItemPayload(payload) IN
         IF Len(validatePayloadErrors) # 0
         THEN Unwritten(InvalidPayloadErrors(validatePayloadErrors))
         ELSE LET dataOpt == get(DataItemsStorage, id) IN
              IF "None" \in DOMAIN dataOpt
              THEN Unwritten(ErrMessage("NotFound", "Data not found", <<>>))
              ELSE LET data == dataOpt.Some IN
                   IF data.seller # caller
                   THEN Unwritten(ErrMessage("AuthenticationFailed",
                                             "Caller is not the seller of the item.", <<>>))
                   ELSE LET updatedData == Spread(data, payload) IN
                        ItemsWritten(Ok(updatedData),
                                     insert(DataItemsStorage, id, updatedData))

updatePurchaserRun(caller, id, payload) ==
    IF DOMAIN payload = {}
    THEN Unwritten(ErrMessage("NotFound", "invalid payoad", <<>>))
    ELSE IF ~isValidUuid(id)
    THEN Unwritten(InvalidUuid("Id", id))
    ELSE LET validatePayloadErrors == validatePurchaserPayload(payload) IN
         IF Len(validatePayloadErrors) # 0
         THEN Unwritten(InvalidPayloadErrors(validatePayloadErrors))
         ELSE LET purchaserOpt == get(purchasersStorage, id) IN
              IF "None" \in DOMAIN purchaserOpt
              THEN Unwritten(ErrMessage("NotFound", "Purchaser not found", <<>>))
              ELSE LET purchaser == purchaserOpt.Some IN
                   IF purchaser.owner # caller
                   THEN Unwritten(ErrMessage("AuthenticationFailed",
                                             "Caller is not the purchaser.", <<>>))
                   ELSE LET updatedPurchaser == Spread(purchaser, payload) IN
                        PurchasersWritten(Ok(updatedPurchaser),
                                          insert(purchasersStorage, id, updatedPurchaser))

deleteDataItemRun_NoSellerCheck(caller, id) ==
    IF ~isValidUuid(id)
    THEN Unwritten(InvalidUuid("Id", id))
    ELSE LET dataItemOpt == get(DataItemsStorage, id) IN
         IF "None" \in DOMAIN dataItemOpt
         THEN Unwritten(ErrMessage("NotFound", "cannot delete the DataItem", <<id>>))
         ELSE ItemsWritten(Ok(dataItemOpt.Some.id), remove(DataItemsStorage, id))

deleteDataItemRun(caller, id) ==
    IF ~isValidUuid(id)
    THEN Unwritten(InvalidUuid("Id", id))
    ELSE LET dataItemOpt == get(DataItemsStorage, id) IN
         IF "None" \in DOMAIN dataItemOpt
         THEN Unwritten(ErrMessage("NotFound", "cannot delete the DataItem", <<id>>))
         ELSE IF dataItemOpt.Some.seller # caller
         THEN Unwritten(ErrMessage("AuthenticationFailed",
                                   "Caller is not the seller of the item.", <<>>))
         ELSE ItemsWritten(Ok(dataItemOpt.Some.id), remove(DataItemsStorage, id))

deletePurchaserRun(caller, id) ==
    IF ~isValidUuid(id)
    THEN Unwritten(InvalidUuid("Id", id))
    ELSE LET purchaserOpt == get(purchasersStorage, id) IN
         IF "None" \in DOMAIN purchaserOpt
         THEN Unwritten(ErrMessage("NotFound", "cannot delete the Purchaser", <<id>>))
         ELSE IF purchaserOpt.Some.owner # caller
         THEN Unwritten(ErrMessage("AuthenticationFailed",
                                   "Caller is not the purchaser.", <<>>))
         ELSE PurchasersWritten(Ok(purchaserOpt.Some.id), remove(purchasersStorage, id))

addPurchasedItemRun_Unshift(caller, purchaserId, itemId) ==
    IF ~isValidUuid(purchaserId)
    THEN Unwritten(InvalidUuid("purchaserId", purchaserId))
    ELSE IF ~isValidUuid(itemId)
    THEN Unwritten(InvalidUuid("itemId", itemId))
    ELSE LET purchaserOpt == get(purchasersStorage, purchaserId) IN
         IF "None" \in DOMAIN purchaserOpt
         THEN Unwritten(ErrMessage("NotFound", "Purchaser not found", <<>>))
         ELSE IF purchaserOpt.Some.owner # caller
         THEN Unwritten(ErrMessage("AuthenticationFailed",
                                   "Caller is not the purchaser.", <<>>))
         ELSE LET purchaser ==
                      [purchaserOpt.Some EXCEPT !.purchasedItem = <<itemId>> \o @]
              IN  PurchasersWritten(Ok("Item added to Purchaser"),
                                    insert(purchasersStorage, purchaserId, purchaser))

addPurchasedItemRun(caller, purchaserId, itemId) ==
    IF ~isValidUuid(purchaserId)
    THEN Unwritten(InvalidUuid("purchaserId", purchaserId))
    ELSE IF ~isValidUuid(itemId)
    THEN Unwritten(InvalidUuid("itemId", itemId))
    ELSE LET purchaserOpt == get(purchasersStorage, purchaserId) IN
         IF "None" \in DOMAIN purchaserOpt
         THEN Unwritten(ErrMessage("NotFound", "Purchaser not found", <<>>))
         ELSE IF purchaserOpt.Some.owner # caller
         THEN Unwritten(ErrMessage("AuthenticationFailed",
                                   "Caller is not the purchaser.", <<>>))
         ELSE LET purchaser ==
                      [purchaserOpt.Some EXCEPT !.purchasedItem = Append(@, itemId)]
              IN  PurchasersWritten(Ok("Item added to Purchaser"),
                                    insert(purchasersStorage, purchaserId, purchaser))

searchDataItemRun(query) ==
    LET datas == values(DataItemsStorage)
        Matches(datum) ==
            \/ includes(toLowerCase(datum.title), toLowerCase(query))
            \/ includes(toLowerCase(datum.description), toLowerCase(query))
    IN  Unwritten(Value(SelectSeq(datas, Matches)))

filterDataItemRun(query) ==
    LET datas == values(DataItemsStorage)
        Matches(datum) == includes(toLowerCase(datum.dataFormat), toLowerCase(query))
    IN  Unwritten(Value(SelectSeq(datas, Matches)))

getInitialDataItemRun ==
    LET datas == values(DataItemsStorage) IN Unwritten(Value(slice(datas, 0, 2)))

getMoreDataItemsRun(start, limit) ==
    LET datas == values(DataItemsStorage) IN
    Unwritten(Value(slice(datas, start, start + limit)))

(***************************************************************************)
(* Actions: one call of one method                                         *)
(***************************************************************************)
NoRange == <<0, 0>>

getDataItems ==
    Runs("getDataItems", NoCaller, NoText, NoText, EmptyPayload, NoText, NoRange,
         getDataItemsRun)

getPurchasers ==
    Runs("getPurchasers", NoCaller, NoText, NoText, EmptyPayload, NoText, NoRange,
         getPurchasersRun)

getDataItem(id) ==
    Runs("getDataItem", NoCaller, id, NoText, EmptyPayload, NoText, NoRange,
         getDataItemRun(id))

getPurchaser(id) ==
    Runs("getPurchaser", NoCaller, id, NoText, EmptyPayload, NoText, NoRange,
         getPurchaserRun(id))

addDataItem(caller, payload) ==
    Runs("addDataItem", caller, NoText, NoText, payload, NoText, NoRange,
         addDataItemRun(caller, payload))

addPurchaser(caller, payload) ==
    Runs("addPurchaser", caller, NoText, NoText, payload, NoText, NoRange,
         addPurchaserRun(caller, payload))

updateDataItem(caller, id, payload) ==
    Runs("updateDataItem", caller, id, NoText, payload, NoText, NoRange,
         updateDataItemRun(caller, id, payload))

updatePurchaser(caller, id, payload) ==
    Runs("updatePurchaser", caller, id, NoText, payload, NoText, NoRange,
         updatePurchaserRun(caller, id, payload))

deleteDataItem(caller, id) ==
    Runs("deleteDataItem", caller, id, NoText, EmptyPayload, NoText, NoRange,
         deleteDataItemRun(caller, id))

deletePurchaser(caller, id) ==
    Runs("deletePurchaser", caller, id, NoText, EmptyPayload, NoText, NoRange,
         deletePurchaserRun(caller, id))

addPurchasedItem(caller, purchaserId, itemId) ==
    Runs("addPurchasedItem", caller, purchaserId, itemId, EmptyPayload, NoText, NoRange,
         addPurchasedItemRun(caller, purchaserId, itemId))

searchDataItem(query) ==
    Runs("searchDataItem", NoCaller, NoText, NoText, EmptyPayload, query, NoRange,
         searchDataItemRun(query))

filterDataItem(query) ==
    Runs("filterDataItem", NoCaller, NoText, NoText, EmptyPayload, query, NoRange,
         filterDataItemRun(query))

getInitialDataItem ==
    Runs("getInitialDataItem", NoCaller, NoText, NoText, EmptyPayload, NoText, NoRange,
         getInitialDataItemRun)

getMoreDataItems(start, limit) ==
    Runs("getMoreDataItems", NoCaller, NoText, NoText, EmptyPayload, NoText,
         <<start, limit>>, getMoreDataItemsRun(start, limit))

\* start and limit reach past the end of any list the model builds
Offsets == {0, 1, MaxOps + 1}

Init ==
    /\ DataItemsStorage = <<>>
    /\ purchasersStorage = <<>>
    /\ generated = 0
    /\ nops = 0
    /\ last = Call("init", NoCaller, NoText, NoText, EmptyPayload, NoText, NoRange,
                   Value(<<>>))

Next ==
    \/ getDataItems
    \/ getPurchasers
    \/ \E id \in IdInputs : getDataItem(id)
    \/ \E id \in IdInputs : getPurchaser(id)
    \/ \E caller \in Callers, payload \in DataItemPayloads : addDataItem(caller, payload)
    \/ \E caller \in Callers, payload \in PurchaserPayloads : addPurchaser(caller, payload)
    \/ \E caller \in Callers, id \in IdInputs, payload \in DataItemPayloads :
          updateDataItem(caller, id, payload)
    \/ \E caller \in Callers, id \in IdInputs, payload \in PurchaserPayloads :
          updatePurchaser(caller, id, payload)
    \/ \E caller \in Callers, id \in IdInputs : deleteDataItem(caller, id)
    \/ \E caller \in Callers, id \in IdInputs : deletePurchaser(caller, id)
    \/ \E caller \in Callers, purchaserId \in IdInputs, itemId \in ItemIdInputs :
          addPurchasedItem(caller, purchaserId, itemId)
    \/ \E query \in Queries : searchDataItem(query)
    \/ \E query \in Queries : filterDataItem(query)
    \/ getInitialDataItem
    \/ \E start \in Offsets, limit \in Offsets : getMoreDataItems(start, limit)

Spec == Init /\ [][Next]_vars

\* The two add methods on every payload of AllDataItemPayloads and AllPurchaserPayloads
NextValidate ==
    \/ \E caller \in Callers, payload \in AllDataItemPayloads : addDataItem(caller, payload)
    \/ \E caller \in Callers, payload \in AllPurchaserPayloads : addPurchaser(caller, payload)

SpecValidate == Init /\ [][NextValidate]_vars

(***************************************************************************)
(* Properties.  The vocabulary below states them without the code's        *)
(* helpers: a blank text, a well-formed identifier, a payload's rules.     *)
(***************************************************************************)
Blank(text) == \A i \in 1..Len(text) : text[i] \in WhiteSpace

WellFormedId(id) ==
    /\ Len(id) = 36
    /\ \A i \in 1..36 :
          IF i \in {9, 14, 19, 24} THEN id[i] = "-" ELSE id[i] \in HexChars

IsPrefix(s, t) == Len(s) <= Len(t) /\ SubSeq(t, 1, Len(s)) = s

IsPayload(payload) == DOMAIN payload # {}

DataItemRules(payload) ==
    <<[field |-> "description", violated |-> Blank(payload.description)],
      [field |-> "quality", violated |-> Blank(payload.quality)],
      [field |-> "title", violated |-> Blank(payload.title)],
      [field |-> "attachmentURL", violated |-> Blank(payload.attachmentURL)],
      [field |-> "price", violated |-> payload.price = 0]>>

PurchaserRules(payload) ==
    <<[field |-> "name", violated |-> Blank(payload.name)],
      [field |-> "message", violated |-> Blank(payload.message)],
      [field |-> "price", violated |-> payload.price = 0]>>

ViolatedFields(rules) ==
    LET Violated(rule) == rule.violated
        picked == SelectSeq(rules, Violated)
    IN  [i \in 1..Len(picked) |-> picked[i].field]

ErrorFields(errors) == [i \in 1..Len(errors) |-> errors[i].field]

PassesDataItemRules(payload) ==
    IsPayload(payload) /\ ViolatedFields(DataItemRules(payload)) = <<>>

PassesPurchaserRules(payload) ==
    IsPayload(payload) /\ ViolatedFields(PurchaserRules(payload)) = <<>>

Failed(res, variant) == res.tag = "Err" /\ res.variant = variant

Succeeded(res) == res.tag \in {"Ok", "Value"}

StoresUnchanged ==
    /\ DataItemsStorage' = DataItemsStorage
    /\ purchasersStorage' = purchasersStorage

ReadOps ==
    {"getDataItems", "getPurchasers", "getDataItem", "getPurchaser",
     "searchDataItem", "filterDataItem", "getInitialDataItem", "getMoreDataItems"}

IdOps ==
    {"getDataItem", "getPurchaser", "updateDataItem", "updatePurchaser",
     "deleteDataItem", "deletePurchaser", "addPurchasedItem"}

MessageVariants == {"NotFound", "InvalidPayload", "AuthenticationFailed"}

\* C1: updateDataItem on a stored record's id, with a payload that passes
\* validation, by a caller who is not the record's seller returns
\* AuthenticationFailed and leaves the record as it was.
C1_UpdateByNonSellerRejected ==
    [][(/\ last'.op = "updateDataItem"
        /\ last'.id \in DOMAIN DataItemsStorage
        /\ DataItemsStorage[last'.id].seller # last'.caller
        /\ PassesDataItemRules(last'.payload))
       => (/\ Failed(last'.res, "AuthenticationFailed")
           /\ last'.id \in DOMAIN DataItemsStorage'
           /\ DataItemsStorage'[last'.id] = DataItemsStorage[last'.id])]_vars

\* A non-seller's update with a valid payload that differs from the stored record
C1_Witness ==
    /\ last.op = "updateDataItem"
    /\ last.id \in DOMAIN DataItemsStorage
    /\ DataItemsStorage[last.id].seller # last.caller
    /\ PassesDataItemRules(last.payload)
    /\ DataItemsStorage[last.id].title # last.payload.title
    /\ Failed(last.res, "AuthenticationFailed")

IdentityKept(old, new, ownerField) ==
    /\ \A k \in DOMAIN old : old[k].id = k
    /\ \A k \in DOMAIN new : new[k].id = k
    /\ \A k \in (DOMAIN old) \cap (DOMAIN new) :
          new[k].id = old[k].id /\ new[k][ownerField] = old[k][ownerField]

OnlyPayloadOverwritten(old, new, payload) ==
    /\ DOMAIN new = DOMAIN old
    /\ \A f \in DOMAIN old :
          new[f] = IF f \in DOMAIN payload THEN payload[f] ELSE old[f]

\* C2: while a record stays in its store its id and its seller (owner) keep
\* their values; a successful update overwrites the payload's fields and no
\* other; every stored record's id is the key it is stored under.
C2_IdAndOwnerImmutable ==
    [][/\ IdentityKept(DataItemsStorage, DataItemsStorage', "seller")
       /\ IdentityKept(purchasersStorage, purchasersStorage', "owner")
       /\ (last'.op = "updateDataItem" /\ last'.res.tag = "Ok")
          => /\ last'.id \in DOMAIN DataItemsStorage
             /\ {"id", "seller"} \cap DOMAIN last'.payload = {}
             /\ OnlyPayloadOverwritten(DataItemsStorage[last'.id],
                                       DataItemsStorage'[last'.id], last'.payload)
       /\ (last'.op = "updatePurchaser" /\ last'.res.tag = "Ok")
          => /\ last'.id \in DOMAIN purchasersStorage
             /\ {"id", "owner"} \cap DOMAIN last'.payload = {}
             /\ OnlyPayloadOverwritten(purchasersStorage[last'.id],
                                       purchasersStorage'[last'.id], last'.payload)]_vars

\* A successful updateDataItem, with a purchaser stored too
C2_Witness ==
    /\ last.op = "updateDataItem"
    /\ last.res.tag = "Ok"
    /\ last.res.val = DataItemsStorage[last.id]
    /\ last.res.val.seller = last.caller
    /\ purchasersStorage # <<>>

\* C3: purchasedItem is empty after addPurchaser; a successful
\* addPurchasedItem by the owner appends itemId, stored or not, repeated or
\* not; no other method changes it; a new purchaser's id was never used
\* before, so an earlier sequence is a prefix of every later one.
C3_PurchasedItemAppendOnly ==
    [][/\ \A k \in (DOMAIN purchasersStorage') \ (DOMAIN purchasersStorage) :
             /\ last'.op = "addPurchaser"
             /\ purchasersStorage'[k].purchasedItem = <<>>
             /\ k \notin GeneratedIds
             /\ k \in {GenId(i) : i \in 1..generated'}
       /\ \A k \in (DOMAIN purchasersStorage') \cap (DOMAIN purchasersStorage) :
             /\ IsPrefix(purchasersStorage[k].purchasedItem,
                         purchasersStorage'[k].purchasedItem)
             /\ purchasersStorage'[k].purchasedItem =
                   IF last'.op = "addPurchasedItem" /\ last'.res.tag = "Ok" /\ last'.id = k
                   THEN Append(purchasersStorage[k].purchasedItem, last'.itemId)
                   ELSE purchasersStorage[k].purchasedItem
       /\ (/\ last'.op = "addPurchasedItem"
           /\ WellFormedId(last'.itemId)
           /\ last'.id \in DOMAIN purchasersStorage
           /\ purchasersStorage[last'.id].owner = last'.caller)
          => (last'.res.tag = "Ok" /\ last'.id \in DOMAIN purchasersStorage')
       /\ GeneratedIds \subseteq {GenId(i) : i \in 1..generated'}]_vars

\* An item id no record has was appended after a different one
C3_Witness ==
    /\ last.op = "addPurchasedItem"
    /\ last.res.tag = "Ok"
    /\ last.itemId \notin DOMAIN DataItemsStorage
    /\ Len(purchasersStorage[last.id].purchasedItem) = 2
    /\ purchasersStorage[last.id].purchasedItem[1] # last.itemId
    /\ purchasersStorage[last.id].purchasedItem[2] = last.itemId

C5_AddThenGet ==
    (last.op = "addDataItem" /\ PassesDataItemRules(last.payload))
    => (/\ last.res.tag = "Ok"
        /\ last.res.val.seller = last.caller
        /\ DOMAIN last.res.val = (DOMAIN last.payload) \cup {"id", "seller"}
        /\ \A f \in DOMAIN last.payload : last.res.val[f] = last.payload[f]
        /\ getDataItemRun(last.res.val.id).res = Ok(last.res.val))

\* A record was just added by bob beside a record of alice
C5_Witness ==
    /\ last.op = "addDataItem"
    /\ last.res.tag = "Ok"
    /\ last.caller = "bob"
    /\ \E k \in DOMAIN DataItemsStorage : DataItemsStorage[k].seller = "alice"

OnlyLeavesByDelete(old, new, op, ownerField) ==
    \A k \in (DOMAIN old) \ (DOMAIN new) :
        /\ last'.op = op
        /\ last'.id = k
        /\ last'.caller = old[k][ownerField]
        /\ DOMAIN new = (DOMAIN old) \ {k}
        /\ \A j \in DOMAIN new : new[j] = old[j]
        /\ last'.res = Ok(k)

\* C6: a record leaves a store only by a delete of its key by its seller
\* (owner); that step removes that key alone, changes no other record of
\* either store and returns the id; deleteDataItem on a well-formed id that
\* is not stored returns NotFound.
C6_OnlyOwnerDeletes ==
    [][/\ OnlyLeavesByDelete(DataItemsStorage, DataItemsStorage', "deleteDataItem", "seller")
       /\ OnlyLeavesByDelete(purchasersStorage, purchasersStorage', "deletePurchaser", "owner")
       /\ DOMAIN DataItemsStorage' # DOMAIN DataItemsStorage
          => purchasersStorage' = purchasersStorage
       /\ DOMAIN purchasersStorage' # DOMAIN purchasersStorage
          => DataItemsStorage' = DataItemsStorage
       /\ (/\ last'.op = "deleteDataItem"
           /\ WellFormedId(last'.id)
           /\ last'.id \notin DOMAIN DataItemsStorage)
          => Failed(last'.res, "NotFound")]_vars

\* A record was deleted from a store that keeps another record
C6_Witness ==
    /\ last.op = "deleteDataItem"
    /\ last.res.tag = "Ok"
    /\ last.id \notin DOMAIN DataItemsStorage
    /\ DataItemsStorage # <<>>

\* C7: the validators report one error per violated rule, in the order of
\* the rules, and none when no rule is violated; addDataItem and
\* addPurchaser return InvalidPayload exactly when there is an error.
C7_ValidationReportsAll ==
    /\ (last.op = "addDataItem" /\ IsPayload(last.payload))
       => LET violated == ViolatedFields(DataItemRules(last.payload)) IN
          /\ ErrorFields(validateDataItemPayload(last.payload)) = violated
          /\ Failed(last.res, "InvalidPayload") <=> violated # <<>>
          /\ Failed(last.res, "InvalidPayload")
             => /\ ErrorFields(last.res.detail) = violated
                /\ \A i \in 1..Len(violated) :
                      last.res.detail[i].value =
                         IF violated[i] = "price" THEN <<last.payload.price>>
                         ELSE last.payload[violated[i]]
    /\ (last.op = "addPurchaser" /\ IsPayload(last.payload))
       => LET violated == ViolatedFields(PurchaserRules(last.payload)) IN
          /\ ErrorFields(validatePurchaserPayload(last.payload)) = violated
          /\ Failed(last.res, "InvalidPayload") <=> violated # <<>>
          /\ Failed(last.res, "InvalidPayload")
             => ErrorFields(last.res.detail) = violated
    /\ (last.op \in {"addDataItem", "addPurchaser"} /\ ~IsPayload(last.payload))
       => ~Failed(last.res, "InvalidPayload")

\* Three of the five rules violated, the first rule not among them
C7_Witness ==
    /\ last.op = "addDataItem"
    /\ Failed(last.res, "InvalidPayload")
    /\ ErrorFields(last.res.detail) = <<"quality", "attachmentURL", "price">>
    /\ DataItemsStorage # <<>>

MalformedIdGiven ==
    /\ last.op \in IdOps
    /\ \/ ~WellFormedId(last.id)
       \/ last.op = "addPurchasedItem" /\ ~WellFormedId(last.itemId)

C10_StoredRecordsValid ==
    /\ \A k \in DOMAIN DataItemsStorage :
          LET data == DataItemsStorage[k] IN
          /\ data.price > 0
          /\ ~Blank(data.title) /\ ~Blank(data.description)
          /\ ~Blank(data.quality) /\ ~Blank(data.attachmentURL)
    /\ \A k \in DOMAIN purchasersStorage :
          LET purchaser == purchasersStorage[k] IN
          /\ purchaser.price > 0
          /\ ~Blank(purchaser.name) /\ ~Blank(purchaser.message)

\* An update with an invalid payload was refused on a stored record of the caller
C10_Witness ==
    /\ last.op = "updateDataItem"
    /\ last.id \in DOMAIN DataItemsStorage
    /\ DataItemsStorage[last.id].seller = last.caller
    /\ IsPayload(last.payload)
    /\ ~PassesDataItemRules(last.payload)
    /\ Failed(last.res, "InvalidPayload")
    /\ purchasersStorage # <<>>

====
